---- MODULE Spec2Model ----
(***************************************************************************)
(* Streak / credit ledger of the Momentum habit tracker.                   *)
(*                                                                         *)
(* One habit row and its HabitCompletion table, driven by the route        *)
(* handlers complete (POST, DELETE), backfill (POST, DELETE), recalculate  *)
(* (POST) and by the lapse sweep of lib/streak-checker.ts.                 *)
(*                                                                         *)
(* Dates are JavaScript timestamps, counted in seconds since the epoch     *)
(* (Date.UTC's milliseconds / 1000: every timestamp of the program is a    *)
(* whole number of seconds); every stored date is built with               *)
(* Date.UTC(y, m, d), i.e. a multiple of SecPerDay.  The clock is the     *)
(* server's local calendar day `day`; the handlers read only the           *)
(* year/month/date components of `new Date()`.                             *)
(***************************************************************************)
EXTENDS Integers, Sequences, FiniteSets, TLC

VARIABLES
    day,          \* local calendar day of the server clock (day number)
    elapsed,      \* day changes since Init
    habit,        \* the Habit row
    completions,  \* the HabitCompletion table: set of [date, skipped, id]
    log,          \* the last request: [op, res, ms, caller, arg, pre]; pre = the Habit
                  \* row before it, arg = the days it named (a read: the streaks it
                  \* returned)
    awards,       \* per milestone: how often its bonus was credited on the current day
    procs         \* requests in flight (interleaved execution): the handler's locals

vars == <<day, elapsed, habit, completions, log, awards, procs>>

----------------------------------------------------------------------------
(* Bounds of the model *)

MaxInitStreak == 7      \* Init: the habit was completed on each of the first k days, k <= MaxInitStreak
MaxDaysRun    == 1      \* number of day changes explored after Init
BackfillBack  == 2      \* backfill inputs reach this many days before today (and one day after)
AwardCap      == 2      \* the per-day award counters saturate here
NumProcs      == 2      \* requests that may be in flight together
WalkToday     == 368    \* the calendar day of the long histories
MaxReqs       == 1      \* requests each of them serves, one after the other

----------------------------------------------------------------------------
(* Dates *)

SecPerDay == 86400
Null     == -1          \* lastCompletedAt: null

\* Date.UTC(year, month, date) of calendar day number n
DateUTC(n) == n * SecPerDay

\* variant: today is taken one calendar day early
getTodayUTCDayEarly(now) == DateUTC(now - 1)

getTodayUTC(now)     == DateUTC(now)
getYesterdayUTC(now) == DateUTC(now - 1)
toUTCMidnight(date)  == (date \div SecPerDay) * SecPerDay
isYesterday(date, now) == toUTCMidnight(date) = getYesterdayUTC(now)

\* "YYYY-MM-DD" -> Date.UTC(year, month - 1, day); the string is day number n
parseLocalDateString(n) == DateUTC(n)

----------------------------------------------------------------------------
(* Milestones (types/diorama.ts) *)

MILESTONES == <<7, 14, 30, 50, 100, 150, 200>>

MilestoneDays == {MILESTONES[i] : i \in 1..Len(MILESTONES)}

MILESTONE_CONFIGS ==
    [d \in MilestoneDays |->
        CASE d = 7   -> [day |-> 7,   bonusCredits |-> 1]
          [] d = 14  -> [day |-> 14,  bonusCredits |-> 1]
          [] d = 30  -> [day |-> 30,  bonusCredits |-> 2]
          [] d = 50  -> [day |-> 50,  bonusCredits |-> 2]
          [] d = 100 -> [day |-> 100, bonusCredits |-> 5]
          [] d = 150 -> [day |-> 150, bonusCredits |-> 5]
          [] d = 200 -> [day |-> 200, bonusCredits |-> 10]]

NoMilestone == 0        \* checkMilestoneReached: null

\* variant: every streak at or past a threshold counts as reaching it
checkMilestoneReachedAtLeast(newStreak) ==
    IF \E d \in MilestoneDays : d <= newStreak
    THEN CHOOSE d \in MilestoneDays :
            d <= newStreak /\ \A e \in MilestoneDays : e <= newStreak => e <= d
    ELSE NoMilestone

\* the day of the first config of MILESTONES past the streak, or NoMilestone
getNextMilestone(currentStreak) ==
    LET past == {i \in 1..Len(MILESTONES) : MILESTONES[i] > currentStreak}
    IN  IF past = {} THEN NoMilestone
        ELSE MILESTONE_CONFIGS[MILESTONES[CHOOSE i \in past : \A j \in past : i <= j]].day

\* the day of the milestone config returned, or NoMilestone
checkMilestoneReached(newStreak) ==
    IF newStreak \in MilestoneDays THEN MILESTONE_CONFIGS[newStreak].day ELSE NoMilestone

\* variant: a threshold counts only once the streak has passed it
getMilestonesReachedPassed(streak) == {d \in MilestoneDays : d < streak}

\* the days of the configs returned (MILESTONES.filter(day => day <= streak))
getMilestonesReached(streak) == {d \in MilestoneDays : d <= streak}

RECURSIVE SumBonus(_)
SumBonus(ds) ==
    IF ds = {} THEN 0
    ELSE LET d == CHOOSE x \in ds : TRUE
         IN  MILESTONE_CONFIGS[d].bonusCredits + SumBonus(ds \ {d})

\* milestonesReached.reduce((sum, m) => sum + m.bonusCredits, 0)
creditsFromMilestones(streak) == SumBonus(getMilestonesReached(streak))

Max(a, b) == IF a >= b THEN a ELSE b

----------------------------------------------------------------------------
(* The HabitCompletion table *)

\* variant: the lookup overlooks skipped records
findUniqueGenuineOnly(store, date) == {c \in store : c.date = date /\ ~c.skipped}

\* findUnique({ where: { habitId_date } }): the records of that date
findUnique(store, date) == {c \in store : c.date = date}

\* variant: the table has no unique index on (habitId, date)
UniqueViolationUnchecked(store, date) == FALSE

\* the table's unique index on (habitId, date) rejects a second record
UniqueViolation(store, date) == findUnique(store, date) # {}

\* a fresh primary key: unused for that date in the table and among the
\* record references `held` by requests in flight
NewId(store, date, held) ==
    LET used == {c.id : c \in {x \in store \cup held : x.date = date}}
    IN  CHOOSE n \in 0..Cardinality(used) : n \notin used

NewCompletion(store, date, skipped, held) ==
    [date |-> date, skipped |-> skipped, id |-> NewId(store, date, held)]

\* allCompletions[0]?.date || null with orderBy date desc
FirstDate(all) ==
    IF all = {} THEN Null
    ELSE CHOOSE d \in {c.date : c \in all} : \A c \in all : c.date <= d

----------------------------------------------------------------------------
(* Streak walk shared by backfill POST, backfill DELETE and recalculate *)

LookbackCap == 365

\* the iterations of `for (let i = 0; i < 365; i++)` that are left when the
\* loop stands at checkDate, evaluated in two halves: the count the loop
\* reaches before its break, or all `left` of them
RECURSIVE StreakWalk(_, _, _), StreakWalkOn(_, _, _, _)
StreakWalk(all, checkDate, left) ==
    IF left = 0 THEN 0
    ELSE IF left = 1
      THEN IF \E c \in all : toUTCMidnight(c.date) = checkDate THEN 1 ELSE 0
    ELSE StreakWalkOn(all, checkDate, left, StreakWalk(all, checkDate, left \div 2))

\* the loop after `counted` iterations out of the first half of `left`
StreakWalkOn(all, checkDate, left, counted) ==
    IF counted < left \div 2 THEN counted
    ELSE counted + StreakWalk(all, checkDate - counted * SecPerDay, left - counted)

\* variant: the loop runs while i <= 365
calcStreakOneMore(all, today) == StreakWalk(all, today, LookbackCap + 1)

\* variant: the walk passes over genuine records only
calcStreakGenuineOnly(all, today) ==
    StreakWalk({c \in all : ~c.skipped}, today, LookbackCap)

calcStreak(all, today) == StreakWalk(all, today, LookbackCap)

----------------------------------------------------------------------------
(* Callers and request outcomes *)

Owner    == "u1"
Users    == {"u1", "u2"}
NoUser   == "none"                 \* no session
Sessions == Users \cup {NoUser}

\* variant: the habit is looked up by id alone
AuthErrorSessionOnly(caller, h) ==
    IF caller = NoUser THEN "Unauthorized" ELSE "ok"

\* session check and prisma.habit.findFirst({ where: { id, userId } })
AuthError(caller, h) ==
    IF caller = NoUser THEN "Unauthorized"
    ELSE IF caller # h.userId THEN "HabitNotFound"
    ELSE "ok"

\* prisma.habit.create defaults
NewHabit ==
    [userId |-> Owner, isArchived |-> FALSE,
     currentStreak |-> 0, longestStreak |-> 0, currentCredits |-> 0,
     lastCompletedAt |-> Null]

Snapshot(h) ==
    [currentStreak |-> h.currentStreak, longestStreak |-> h.longestStreak,
     currentCredits |-> h.currentCredits, lastCompletedAt |-> h.lastCompletedAt]

----------------------------------------------------------------------------
(* complete/route.ts POST: what the handler computes from the habit it read *)

\* variant: a gap does not restart the streak
CompleteNewStreakNoRestart(h, now, useCredit) ==
    IF useCredit THEN h.currentStreak
    ELSE IF h.lastCompletedAt # Null
            /\ toUTCMidnight(h.lastCompletedAt) = getTodayUTC(now)
         THEN h.currentStreak
    ELSE h.currentStreak + 1

\* lines 79-98
CompleteNewStreak(h, now, useCredit) ==
    IF useCredit THEN h.currentStreak
    ELSE IF h.lastCompletedAt # Null /\ isYesterday(h.lastCompletedAt, now)
         THEN h.currentStreak + 1
    ELSE IF h.lastCompletedAt # Null
            /\ toUTCMidnight(h.lastCompletedAt) = getTodayUTC(now)
         THEN h.currentStreak
    ELSE 1

\* variant: the credit check is off by one
NotEnoughCreditsOffByOne(h, useCredit) == useCredit /\ h.currentCredits < 0

\* lines 71-77
NotEnoughCredits(h, useCredit) == useCredit /\ h.currentCredits < 1

\* lines 101-108
CompleteNewCredits(h, now, useCredit) ==
    LET newStreak  == CompleteNewStreak(h, now, useCredit)
        base       == IF useCredit THEN h.currentCredits - 1 ELSE h.currentCredits
        milestone  == checkMilestoneReached(newStreak)
    IN  IF milestone # NoMilestone /\ ~useCredit
        THEN base + MILESTONE_CONFIGS[milestone].bonusCredits
        ELSE base

\* variant: a skip leaves lastCompletedAt as it was read
CompleteUpdateSkipKeepsLast(row, h, now, useCredit) ==
    LET newStreak == CompleteNewStreak(h, now, useCredit)
    IN  [row EXCEPT !.currentStreak   = newStreak,
                    !.longestStreak   = Max(h.longestStreak, newStreak),
                    !.lastCompletedAt = IF useCredit THEN h.lastCompletedAt
                                        ELSE getTodayUTC(now),
                    !.currentCredits  = CompleteNewCredits(h, now, useCredit)]

\* lines 119-127: prisma.habit.update applied to the row, from the habit h read earlier
CompleteUpdate(row, h, now, useCredit) ==
    LET newStreak == CompleteNewStreak(h, now, useCredit)
    IN  [row EXCEPT !.currentStreak   = newStreak,
                    !.longestStreak   = Max(h.longestStreak, newStreak),
                    !.lastCompletedAt = getTodayUTC(now),
                    !.currentCredits  = CompleteNewCredits(h, now, useCredit)]

\* lines 130-139: the milestoneReached field of the response
CompleteResponseMilestone(h, now, useCredit) ==
    checkMilestoneReached(CompleteNewStreak(h, now, useCredit))

\* variant: the undo puts lastCompletedAt back to the day before the deleted record
UndoUpdateRestoresLast(row, h, completion) ==
    [row EXCEPT !.currentStreak   = Max(0, h.currentStreak - 1),
                !.currentCredits  = IF completion.skipped
                                    THEN h.currentCredits + 1
                                    ELSE h.currentCredits,
                !.lastCompletedAt = completion.date - SecPerDay]

(* complete/route.ts DELETE, lines 182-201 *)
UndoUpdate(row, h, completion) ==
    [row EXCEPT !.currentStreak   = Max(0, h.currentStreak - 1),
                !.currentCredits  = IF completion.skipped
                                    THEN h.currentCredits + 1
                                    ELSE h.currentCredits,
                !.lastCompletedAt = Null]

\* variant: the recompute adds the milestone credits to the balance
RecalcUpdateAddsCredits(row, h, all, now) ==
    LET currentStreak == calcStreak(all, getTodayUTC(now))
    IN  [row EXCEPT !.currentStreak   = currentStreak,
                    !.longestStreak   = Max(h.longestStreak, currentStreak),
                    !.currentCredits  = h.currentCredits
                                            + creditsFromMilestones(currentStreak),
                    !.lastCompletedAt = FirstDate(all)]

\* variant: the recompute overwrites balance and longest streak
RecalcUpdateOverwrites(row, h, all, now) ==
    LET currentStreak == calcStreak(all, getTodayUTC(now))
    IN  [row EXCEPT !.currentStreak   = currentStreak,
                    !.longestStreak   = currentStreak,
                    !.currentCredits  = creditsFromMilestones(currentStreak),
                    !.lastCompletedAt = FirstDate(all)]

(* backfill POST lines 111-127 and recalculate POST lines 69-85 *)
RecalcUpdate(row, h, all, now) ==
    LET currentStreak == calcStreak(all, getTodayUTC(now))
    IN  [row EXCEPT !.currentStreak   = currentStreak,
                    !.longestStreak   = Max(h.longestStreak, currentStreak),
                    !.currentCredits  = Max(h.currentCredits,
                                            creditsFromMilestones(currentStreak)),
                    !.lastCompletedAt = FirstDate(all)]

\* variant: the removal recomputes the balance from the streak that is left
RemoveUpdateRecomputesCredits(row, all, now) ==
    [row EXCEPT !.currentStreak   = calcStreak(all, getTodayUTC(now)),
                !.currentCredits  = creditsFromMilestones(calcStreak(all, getTodayUTC(now))),
                !.lastCompletedAt = FirstDate(all)]

\* variant: the removal leaves lastCompletedAt as it is
RemoveUpdateKeepsLast(row, all, now) ==
    [row EXCEPT !.currentStreak = calcStreak(all, getTodayUTC(now))]

(* backfill DELETE lines 201-209 *)
RemoveUpdate(row, all, now) ==
    [row EXCEPT !.currentStreak   = calcStreak(all, getTodayUTC(now)),
                !.lastCompletedAt = FirstDate(all)]

\* variant: the loop creates a record without looking the date up
RECURSIVE BackfillLoopNoLookup(_, _, _)
BackfillLoopNoLookup(store, dates, now) ==
    IF dates = <<>> THEN store
    ELSE LET date == parseLocalDateString(Head(dates))
             next == IF date > getTodayUTC(now) THEN store
                     ELSE store \cup {NewCompletion(store, date, FALSE, {})}
         IN  BackfillLoopNoLookup(next, Tail(dates), now)

(* backfill POST lines 55-81: the loop over the request's dates *)
RECURSIVE BackfillLoop(_, _, _)
BackfillLoop(store, dates, now) ==
    IF dates = <<>> THEN store
    ELSE LET date == parseLocalDateString(Head(dates))
             next == IF date > getTodayUTC(now) THEN store
                     ELSE IF findUnique(store, date) # {} THEN store
                     ELSE store \cup {NewCompletion(store, date, FALSE, {})}
         IN  BackfillLoop(next, Tail(dates), now)

\* variant: the sweep does not look at yesterday's record
SweepResetsIgnoresYesterday(h, store, now) ==
    /\ h.currentStreak # 0
    /\ findUnique(store, getTodayUTC(now)) = {}
    /\ ~(/\ h.lastCompletedAt # Null
         /\ toUTCMidnight(h.lastCompletedAt) >= getYesterdayUTC(now))

(* streak-checker.ts checkAndResetStreakIfNeeded, lines 24-78 *)
SweepResets(h, store, now) ==
    /\ h.currentStreak # 0
    /\ findUnique(store, getTodayUTC(now)) = {}
    /\ findUnique(store, getYesterdayUTC(now)) = {}
    /\ ~(/\ h.lastCompletedAt # Null
         /\ toUTCMidnight(h.lastCompletedAt) >= getYesterdayUTC(now))

\* variant: the sweep also takes archived habits
SweepSelectsArchived(h, userId) ==
    h.userId = userId /\ h.currentStreak > 0

\* streak-checker.ts checkAndResetAllStreaks, lines 83-95: the findMany filter
SweepSelects(h, userId) ==
    h.userId = userId /\ ~h.isArchived /\ h.currentStreak > 0

----------------------------------------------------------------------------
(* Bookkeeping of the requests served *)

NoLog == [op |-> "none", res |-> "none", ms |-> NoMilestone,
          caller |-> NoUser, arg |-> {}, pre |-> Snapshot(NewHabit)]

Logged(op, res, ms, caller, arg) ==
    /\ log' = [op |-> op, res |-> res, ms |-> ms, caller |-> caller, arg |-> arg,
               pre |-> Snapshot(habit)]
    /\ UNCHANGED procs

\* the request fails before any write
Rejected(op, res, caller) ==
    /\ Logged(op, res, NoMilestone, caller, {})
    /\ UNCHANGED <<day, elapsed, habit, completions, awards>>

NoAwards == [d \in MilestoneDays |-> 0]

Bump(aw, ds) ==
    [d \in MilestoneDays |->
        IF d \in ds THEN (IF aw[d] < AwardCap THEN aw[d] + 1 ELSE AwardCap) ELSE aw[d]]

\* the milestones whose bonuses make up an increase of delta credits at a
\* streak that has reached the milestones ds, taken from the highest down
RECURSIVE Credited(_, _)
Credited(delta, ds) ==
    IF delta <= 0 \/ ds = {} THEN {}
    ELSE LET m == CHOOSE x \in ds : \A y \in ds : y <= x
         IN  {m} \cup Credited(delta - MILESTONE_CONFIGS[m].bonusCredits, ds \ {m})

\* the award counters after a request that took the Habit row from `before` to `after`
AwardsAfter(aw, before, after) ==
    Bump(aw, Credited(after.currentCredits - before.currentCredits,
                      getMilestonesReached(after.currentStreak)))

----------------------------------------------------------------------------
(* The requests, each served without interleaving *)

\* complete/route.ts POST
CompletePOST(caller, useCredit) ==
    LET op    == IF useCredit THEN "CompleteWithCredit" ELSE "Complete"
        today == getTodayUTC(day)
    IN  IF AuthError(caller, habit) # "ok"
          THEN Rejected(op, AuthError(caller, habit), caller)
        ELSE IF findUnique(completions, today) # {}
          THEN Rejected(op, "AlreadyCompletedToday", caller)
        ELSE IF NotEnoughCredits(habit, useCredit)
          THEN Rejected(op, "InsufficientCredits", caller)
        ELSE IF UniqueViolation(completions, today)
          THEN Rejected(op, "UniqueConstraintFailed", caller)
        ELSE \E row \in {CompleteUpdate(habit, habit, day, useCredit)},
                ms  \in {CompleteResponseMilestone(habit, day, useCredit)} :
               /\ completions' = completions \cup
                                   {NewCompletion(completions, today, useCredit, {})}
               /\ habit' = row
               /\ awards' = AwardsAfter(awards, habit, row)
               /\ Logged(op, "ok", ms, caller, {})
               /\ UNCHANGED <<day, elapsed>>

Complete == \E caller \in Sessions : CompletePOST(caller, FALSE)

CompleteWithCredit == \E caller \in Sessions : CompletePOST(caller, TRUE)

\* complete/route.ts DELETE
Undo ==
    \E caller \in Sessions :
        IF AuthError(caller, habit) # "ok"
          THEN Rejected("Undo", AuthError(caller, habit), caller)
        ELSE IF findUnique(completions, getTodayUTC(day)) = {}
          THEN Rejected("Undo", "NoCompletionToday", caller)
        ELSE \E completion \in findUnique(completions, getTodayUTC(day)) :
               \E row \in {UndoUpdate(habit, habit, completion)} :
                   /\ completions' = completions \ {completion}
                   /\ habit' = row
                   /\ Logged("Undo", "ok", NoMilestone, caller, {})
                   /\ UNCHANGED <<day, elapsed, awards>>

\* the dates a backfill request may name on the current day
BackfillDays == {n \in (day - BackfillBack)..(day + 1) : n >= 0}

\* the date lists of a backfill POST: past and present days, or one future day
BackfillLists == (SUBSET (BackfillDays \ {day + 1})) \cup {{day + 1}}

RECURSIVE Ascending(_)
Ascending(ns) ==
    IF ns = {} THEN <<>>
    ELSE LET n == CHOOSE x \in ns : \A y \in ns : x <= y
         IN  <<n>> \o Ascending(ns \ {n})

\* backfill POST
BackfillAdd ==
    \E caller \in Sessions :
        IF AuthError(caller, habit) # "ok"
          THEN Rejected("BackfillAdd", AuthError(caller, habit), caller)
        ELSE \E ns \in BackfillLists :
             \E store \in {BackfillLoop(completions, Ascending(ns), day)} :
             \E row \in {RecalcUpdate(habit, habit, store, day)} :
                 /\ completions' = store
                 /\ habit' = row
                 /\ awards' = AwardsAfter(awards, habit, row)
                 /\ Logged("BackfillAdd", "ok", NoMilestone, caller, ns)
                 /\ UNCHANGED <<day, elapsed>>

\* backfill DELETE
BackfillRemove ==
    \E caller \in Sessions :
        IF AuthError(caller, habit) # "ok"
          THEN Rejected("BackfillRemove", AuthError(caller, habit), caller)
        ELSE \E n \in BackfillDays :
             \E store \in {completions \ findUnique(completions, parseLocalDateString(n))} :
                 /\ completions' = store
                 /\ habit' = RemoveUpdate(habit, store, day)
                 /\ Logged("BackfillRemove", "ok", NoMilestone, caller, {n})
                 /\ UNCHANGED <<day, elapsed, awards>>

\* recalculate POST
Recalculate ==
    \E caller \in Sessions :
        IF AuthError(caller, habit) # "ok"
          THEN Rejected("Recalculate", AuthError(caller, habit), caller)
        ELSE \E row \in {RecalcUpdate(habit, habit, completions, day)} :
                 /\ habit' = row
                 /\ awards' = AwardsAfter(awards, habit, row)
                 /\ Logged("Recalculate", "ok", NoMilestone, caller, {})
                 /\ UNCHANGED <<day, elapsed, completions>>

\* streak-checker.ts checkAndResetAllStreaks(userId)
Sweep ==
    \E userId \in Users :
        /\ habit' = IF SweepSelects(habit, userId) /\ SweepResets(habit, completions, day)
                    THEN [habit EXCEPT !.currentStreak = 0]
                    ELSE habit
        /\ Logged("Sweep", "ok", NoMilestone, userId, {})
        /\ UNCHANGED <<day, elapsed, completions, awards>>

\* habits/[id] PATCH: the owner archives or restores the habit
Patch ==
    \E caller \in Sessions :
        IF AuthError(caller, habit) # "ok"
          THEN Rejected("Patch", AuthError(caller, habit), caller)
        ELSE \E isArchived \in BOOLEAN :
                 /\ habit' = [habit EXCEPT !.isArchived = isArchived]
                 /\ Logged("Patch", "ok", NoMilestone, caller, {})
                 /\ UNCHANGED <<day, elapsed, completions, awards>>

\* the streaks a findMany({ where: { userId, isArchived: false } }) returns
ActiveStreaks(h, userId) ==
    IF h.userId = userId /\ ~h.isArchived THEN {h.currentStreak} ELSE {}

\* the streaks a findMany({ where: { userId } }) returns
AllStreaks(h, userId) == IF h.userId = userId THEN {h.currentStreak} ELSE {}

\* dashboard/page.tsx DashboardPage: the sweep, then the habits of today's view
DashboardPage ==
    \E userId \in Users :
    \E row \in {IF SweepSelects(habit, userId) /\ SweepResets(habit, completions, day)
                THEN [habit EXCEPT !.currentStreak = 0]
                ELSE habit} :
        /\ habit' = row
        /\ Logged("DashboardPage", "ok", NoMilestone, userId, ActiveStreaks(row, userId))
        /\ UNCHANGED <<day, elapsed, completions, awards>>

\* garden/page.tsx GardenPage: every habit of the user with its streak
GardenPage ==
    \E userId \in Users :
        /\ Logged("GardenPage", "ok", NoMilestone, userId, AllStreaks(habit, userId))
        /\ UNCHANGED <<day, elapsed, habit, completions, awards>>

\* garden/GardenView.tsx: the user's habits with the next milestone of each
GardenView ==
    \E userId \in Users :
        /\ Logged("GardenView", "ok",
                  IF habit.userId = userId THEN getNextMilestone(habit.currentStreak)
                  ELSE NoMilestone,
                  userId, AllStreaks(habit, userId))
        /\ UNCHANGED <<day, elapsed, habit, completions, awards>>

\* api/habits GET: the user's active habits
GET ==
    \E caller \in Sessions :
        IF caller = NoUser
          THEN Rejected("GET", "Unauthorized", caller)
        ELSE /\ Logged("GET", "ok", NoMilestone, caller, ActiveStreaks(habit, caller))
             /\ UNCHANGED <<day, elapsed, habit, completions, awards>>

\* the server's local calendar date changes
DayAdvance ==
    /\ elapsed < MaxDaysRun
    /\ day' = day + 1
    /\ elapsed' = elapsed + 1
    /\ awards' = NoAwards
    /\ Logged("DayAdvance", "ok", NoMilestone, NoUser, {})
    /\ UNCHANGED <<habit, completions>>

----------------------------------------------------------------------------
(* Interleaved execution: a request advances by one database call at a     *)
(* time (each `await prisma...`); prisma.$transaction([...]) is one call.  *)

Procs == 1..NumProcs

Idle ==
    [pc |-> "idle", op |-> "none", useCredit |-> FALSE, reqs |-> 0,
     h |-> NewHabit, checked |-> FALSE, found |-> {}, dates |-> <<>>, target |-> 0,
     created |-> {}, deleted |-> 0, all |-> {}, res |-> "none", ms |-> NoMilestone]

Ops == {"Complete", "Undo", "BackfillAdd", "BackfillRemove", "Recalculate"}

\* record references held by the requests in flight
Held == UNION {procs[p].found : p \in Procs}

Step(p, r) ==
    /\ procs' = [procs EXCEPT ![p] = r]
    /\ UNCHANGED <<day, elapsed, log, awards>>

Done(r, res) == [r EXCEPT !.pc = "done", !.res = res]

\* a request arrives; its session is the owner's
Arrive(p) ==
    /\ procs[p].pc \in {"idle", "done"}
    /\ procs[p].reqs < MaxReqs
    /\ \E op \in Ops, useCredit \in BOOLEAN, ns \in BackfillLists, n \in BackfillDays :
          /\ useCredit => op = "Complete"
          /\ (op # "BackfillAdd") => ns = {}
          /\ (op # "BackfillRemove") => n = day
          /\ Step(p, [Idle EXCEPT !.pc = "findFirst", !.op = op,
                                  !.useCredit = useCredit,
                                  !.reqs = procs[p].reqs + 1,
                                  !.dates = Ascending(ns), !.target = n])
    /\ UNCHANGED <<habit, completions>>

\* prisma.habit.findFirst({ where: { id, userId } })
FindFirst(p) ==
    LET r == procs[p]
    IN  /\ r.pc = "findFirst"
        /\ Step(p, [r EXCEPT !.h = habit,
                             !.pc = CASE r.op \in {"Complete", "Undo"} -> "findUnique"
                                      [] r.op = "BackfillAdd"    -> "backfillFind"
                                      [] r.op = "BackfillRemove" -> "deleteMany"
                                      [] r.op = "Recalculate"    -> "findMany"])
        /\ UNCHANGED <<habit, completions>>

\* complete POST lines 54-77 and DELETE lines 166-180
FindUnique(p) ==
    LET r     == procs[p]
        found == findUnique(completions, getTodayUTC(day))
    IN  /\ r.pc = "findUnique"
        /\ IF r.op = "Complete"
           THEN IF found # {}
                  THEN Step(p, Done(r, "AlreadyCompletedToday"))
                ELSE IF NotEnoughCredits(r.h, r.useCredit)
                  THEN Step(p, Done(r, "InsufficientCredits"))
                ELSE Step(p, [r EXCEPT !.checked = TRUE, !.pc = "transaction"])
           ELSE IF found = {}
                  THEN Step(p, Done(r, "NoCompletionToday"))
                ELSE \E completion \in found :
                       Step(p, [r EXCEPT !.checked = TRUE, !.found = {completion},
                                         !.pc = "transaction"])
        /\ UNCHANGED <<habit, completions>>

\* complete POST lines 110-128 and DELETE lines 190-202: prisma.$transaction
Transaction(p) ==
    LET r     == procs[p]
        today == getTodayUTC(day)
    IN  /\ r.pc = "transaction"
        /\ IF r.op = "Complete"
           THEN IF UniqueViolation(completions, today)
                  THEN /\ Step(p, Done(r, "UniqueConstraintFailed"))
                       /\ UNCHANGED <<habit, completions>>
                ELSE \E c \in {NewCompletion(completions, today, r.useCredit, Held)} :
                       /\ completions' = completions \cup {c}
                       /\ habit' = CompleteUpdate(habit, r.h, day, r.useCredit)
                       /\ Step(p, Done([r EXCEPT !.created = {c},
                                                 !.ms = CompleteResponseMilestone(
                                                            r.h, day, r.useCredit)],
                                       "ok"))
           ELSE IF ~(r.found \subseteq completions)
                  THEN /\ Step(p, Done(r, "RecordNotFound"))
                       /\ UNCHANGED <<habit, completions>>
                ELSE /\ completions' = completions \ r.found
                     /\ habit' = UndoUpdate(habit, r.h, CHOOSE c \in r.found : TRUE)
                     /\ Step(p, Done([r EXCEPT !.deleted = 1], "ok"))

\* backfill POST lines 55-70: skip future dates, look the next date up
BackfillFind(p) ==
    LET r == procs[p]
    IN  /\ r.pc = "backfillFind"
        /\ IF r.dates = <<>>
             THEN Step(p, [r EXCEPT !.pc = "findMany"])
           ELSE IF parseLocalDateString(Head(r.dates)) > getTodayUTC(day)
             THEN Step(p, [r EXCEPT !.dates = Tail(r.dates)])
           ELSE IF findUnique(completions, parseLocalDateString(Head(r.dates))) # {}
             THEN Step(p, [r EXCEPT !.dates = Tail(r.dates)])
           ELSE Step(p, [r EXCEPT !.pc = "backfillCreate"])
        /\ UNCHANGED <<habit, completions>>

\* backfill POST lines 71-80: prisma.habitCompletion.create
BackfillCreate(p) ==
    LET r    == procs[p]
        date == parseLocalDateString(Head(r.dates))
    IN  /\ r.pc = "backfillCreate"
        /\ IF UniqueViolation(completions, date)
             THEN /\ Step(p, Done(r, "UniqueConstraintFailed"))
                  /\ UNCHANGED <<habit, completions>>
           ELSE \E c \in {NewCompletion(completions, date, FALSE, Held)} :
                  /\ completions' = completions \cup {c}
                  /\ Step(p, [r EXCEPT !.created = r.created \cup {c},
                                       !.dates = Tail(r.dates),
                                       !.pc = "backfillFind"])
                  /\ UNCHANGED habit

\* backfill DELETE lines 166-171: prisma.habitCompletion.deleteMany
DeleteMany(p) ==
    LET r    == procs[p]
        gone == findUnique(completions, parseLocalDateString(r.target))
    IN  /\ r.pc = "deleteMany"
        /\ completions' = completions \ gone
        /\ Step(p, [r EXCEPT !.deleted = Cardinality(gone), !.pc = "findMany"])
        /\ UNCHANGED habit

\* prisma.habitCompletion.findMany({ where: { habitId }, orderBy: { date: "desc" } })
FindMany(p) ==
    LET r == procs[p]
    IN  /\ r.pc = "findMany"
        /\ Step(p, [r EXCEPT !.all = completions, !.pc = "update"])
        /\ UNCHANGED <<habit, completions>>

\* the closing prisma.habit.update of backfill POST, backfill DELETE and recalculate
Update(p) ==
    LET r == procs[p]
    IN  /\ r.pc = "update"
        /\ habit' = IF r.op = "BackfillRemove"
                    THEN RemoveUpdate(habit, r.all, day)
                    ELSE RecalcUpdate(habit, r.h, r.all, day)
        /\ Step(p, Done(r, "ok"))
        /\ UNCHANGED completions

\* the sweep of the owner's habits arrives (dashboard/page.tsx line 22)
ArriveSweep(p) ==
    /\ procs[p].pc \in {"idle", "done"}
    /\ procs[p].reqs < MaxReqs
    /\ Step(p, [Idle EXCEPT !.pc = "sweepFindMany", !.op = "Sweep",
                            !.reqs = procs[p].reqs + 1])
    /\ UNCHANGED <<habit, completions>>

\* streak-checker.ts lines 84-91: the habits with an active streak
SweepFindMany(p) ==
    LET r == procs[p]
    IN  /\ r.pc = "sweepFindMany"
        /\ IF SweepSelects(habit, Owner)
             THEN Step(p, [r EXCEPT !.pc = "sweepHabit"])
           ELSE Step(p, Done(r, "ok"))
        /\ UNCHANGED <<habit, completions>>

\* streak-checker.ts lines 25-29: prisma.habit.findUnique
SweepHabit(p) ==
    LET r == procs[p]
    IN  /\ r.pc = "sweepHabit"
        /\ IF habit.currentStreak = 0
             THEN Step(p, Done([r EXCEPT !.h = habit], "ok"))
           ELSE Step(p, [r EXCEPT !.h = habit, !.pc = "sweepToday"])
        /\ UNCHANGED <<habit, completions>>

\* streak-checker.ts lines 35-45: today's record
SweepToday(p) ==
    LET r == procs[p]
    IN  /\ r.pc = "sweepToday"
        /\ IF findUnique(completions, getTodayUTC(day)) # {}
             THEN Step(p, Done(r, "ok"))
           ELSE Step(p, [r EXCEPT !.pc = "sweepYesterday"])
        /\ UNCHANGED <<habit, completions>>

\* streak-checker.ts lines 48-68: yesterday's record, then lastCompletedAt as read
SweepYesterday(p) ==
    LET r == procs[p]
    IN  /\ r.pc = "sweepYesterday"
        /\ IF findUnique(completions, getYesterdayUTC(day)) # {}
             THEN Step(p, Done(r, "ok"))
           ELSE IF /\ r.h.lastCompletedAt # Null
                   /\ toUTCMidnight(r.h.lastCompletedAt) >= getYesterdayUTC(day)
             THEN Step(p, Done(r, "ok"))
           ELSE Step(p, [r EXCEPT !.pc = "sweepUpdate"])
        /\ UNCHANGED <<habit, completions>>

\* streak-checker.ts lines 71-77: prisma.habit.update
SweepUpdate(p) ==
    LET r == procs[p]
    IN  /\ r.pc = "sweepUpdate"
        /\ habit' = [habit EXCEPT !.currentStreak = 0]
        /\ Step(p, Done([r EXCEPT !.checked = TRUE], "ok"))
        /\ UNCHANGED completions

\* a calendar day passes before the first request arrives
LapseDay ==
    /\ \A p \in Procs : procs[p].pc = "idle"
    /\ DayAdvance

NextInterleaved ==
    \E p \in Procs :
        \/ Arrive(p)
        \/ FindFirst(p)
        \/ FindUnique(p)
        \/ Transaction(p)
        \/ BackfillFind(p)
        \/ BackfillCreate(p)
        \/ DeleteMany(p)
        \/ FindMany(p)
        \/ Update(p)

----------------------------------------------------------------------------
(* Initial states: a habit created on day 0 and completed (complete POST)   *)
(* on each of the days 0 .. k-1, seen on day k before any request of day k *)

RECURSIVE AfterDailyCompletes(_)
AfterDailyCompletes(k) ==
    IF k = 0 THEN [h |-> NewHabit, store |-> {}]
    ELSE LET p == AfterDailyCompletes(k - 1)
         IN  [h     |-> CompleteUpdate(p.h, p.h, k - 1, FALSE),
              store |-> p.store \cup
                          {NewCompletion(p.store, getTodayUTC(k - 1), FALSE, {})}]

Init ==
    \E k \in 0..MaxInitStreak :
        /\ day = k
        /\ elapsed = 0
        /\ habit = AfterDailyCompletes(k).h
        /\ completions = AfterDailyCompletes(k).store
        /\ log = NoLog
        /\ awards = NoAwards
        /\ procs = [p \in Procs |-> Idle]

\* the table and the Habit row after a complete POST (useCredit false) on each
\* of the days 0 .. n-1 (AfterDailyCompletes in closed form)
CompletedStore(n) ==
    {[date |-> getTodayUTC(d), skipped |-> FALSE, id |-> 0] : d \in 0..(n - 1)}

CompletedRow(n) ==
    [NewHabit EXCEPT !.currentStreak   = n,
                     !.longestStreak   = n,
                     !.currentCredits  = creditsFromMilestones(n),
                     !.lastCompletedAt = IF n = 0 THEN Null ELSE getTodayUTC(n - 1)]

\* the streaks around the milestone thresholds
StreakInputs == {0} \cup {d + e : d \in MilestoneDays, e \in {-2, -1, 0, 1}}

\* a habit completed on each of the days 0 .. n-1, seen on day n
InitMilestones ==
    \E n \in StreakInputs :
        /\ day = n
        /\ elapsed = MaxDaysRun
        /\ habit = CompletedRow(n)
        /\ completions = CompletedStore(n)
        /\ log = NoLog
        /\ awards = NoAwards
        /\ procs = [p \in Procs |-> Idle]

\* the lengths of the long histories
WalkRuns == {LookbackCap - 1, LookbackCap + 1}

\* the table and the Habit row after a complete POST on each of the n days
\* ending yesterday, the one three days ago with useCredit (AfterDailyCompletes
\* in closed form: the skip took a credit and did not count for the streak)
DailyStore(now, n) ==
    {[date |-> getTodayUTC(d), skipped |-> (d = now - 3), id |-> 0]
        : d \in (now - n)..(now - 1)}

DailyRow(now, n) ==
    [NewHabit EXCEPT !.currentStreak   = n - 1,
                     !.longestStreak   = n - 1,
                     !.currentCredits  = creditsFromMilestones(n - 1) - 1,
                     !.lastCompletedAt = getTodayUTC(now - 1)]

\* long histories: the habit was completed on each of the n days before WalkToday
InitWalk ==
    \E n \in WalkRuns :
        /\ day = WalkToday
        /\ elapsed = MaxDaysRun
        /\ habit = DailyRow(WalkToday, n)
        /\ completions = DailyStore(WalkToday, n)
        /\ log = NoLog
        /\ awards = NoAwards
        /\ procs = [p \in Procs |-> Idle]

Next ==
    \/ Complete
    \/ CompleteWithCredit
    \/ Undo
    \/ BackfillAdd
    \/ BackfillRemove
    \/ Recalculate
    \/ Sweep
    \/ DayAdvance

Spec == Init /\ [][Next]_vars

\* the requests that can earn credits, without skips and removals
NextEarn ==
    \/ Complete
    \/ Undo
    \/ BackfillAdd
    \/ Recalculate
    \/ DayAdvance

SpecEarn == Init /\ [][NextEarn]_vars

\* completions, removals and sweeps over the days, the habit's PATCH, and the
\* pages and routes that show streaks
NextDisplay ==
    \/ Complete
    \/ CompleteWithCredit
    \/ Undo
    \/ BackfillRemove
    \/ Sweep
    \/ DayAdvance
    \/ Patch
    \/ DashboardPage
    \/ GardenPage
    \/ GET

SpecDisplay == Init /\ [][NextDisplay]_vars

\* interleaved requests and sweeps after a lapse
NextRace ==
    \/ LapseDay
    \/ NextInterleaved
    \/ \E p \in Procs :
          \/ ArriveSweep(p)
          \/ SweepFindMany(p)
          \/ SweepHabit(p)
          \/ SweepToday(p)
          \/ SweepYesterday(p)
          \/ SweepUpdate(p)

SpecRace == Init /\ [][NextRace]_vars

\* the requests that read or change the tail of a long history
NextWalk ==
    \/ Complete
    \/ BackfillRemove
    \/ Recalculate

SpecWalk == InitWalk /\ [][NextWalk]_vars

\* recomputes and the garden view at the milestone thresholds
NextMilestones ==
    \/ BackfillAdd
    \/ Recalculate
    \/ GardenView

SpecMilestones == InitMilestones /\ [][NextMilestones]_vars

\* completing and undoing on one day
NextToggle ==
    \/ Complete
    \/ Undo
    \/ DayAdvance

SpecToggle == Init /\ [][NextToggle]_vars

SpecInterleaved == Init /\ [][NextInterleaved]_vars

----------------------------------------------------------------------------
(* Properties *)

today     == getTodayUTC(day)
yesterday == getYesterdayUTC(day)

\* number of consecutive recorded days ending at date (no lookback cap)
RECURSIVE ConsecutiveEnding(_, _)
ConsecutiveEnding(store, date) ==
    IF date >= 0 /\ findUnique(store, date) # {}
    THEN 1 + ConsecutiveEnding(store, date - SecPerDay)
    ELSE 0

Served(op)   == log.op = op /\ log.res = "ok"
WriteOps     == {"Complete", "CompleteWithCredit", "Undo", "BackfillAdd",
                 "BackfillRemove", "Recalculate", "Sweep"}

\* C1: after every operation the longest streak is at least the current streak.
C1_LongestAtLeastCurrent == habit.longestStreak >= habit.currentStreak

\* C2: credits and streak never go below zero, whatever sequence of requests
\* and sweeps is served.
C2_NonNegative == habit.currentCredits >= 0 /\ habit.currentStreak >= 0

\* C2 witness: a skip has spent the last credit
C2_Witness == Served("CompleteWithCredit") /\ habit.currentCredits = 0

\* C3: after every operation the streak agrees with the completion history:
\* with a record for today it is the number of consecutive recorded days ending
\* today, without one it is 0 or the number ending yesterday.
C3_StreakMatchesHistory ==
    (log.op \in WriteOps /\ log.res = "ok") =>
        IF findUnique(completions, today) # {}
        THEN habit.currentStreak = ConsecutiveEnding(completions, today)
        ELSE habit.currentStreak \in {0, ConsecutiveEnding(completions, yesterday)}

\* C4: credits are conserved; in particular a Recalculate or Backfill-add whose
\* recomputed streak reaches no milestone the previous streak had not reached
\* gives no credit (a credit spent on a skip is not handed back).
C4_SpentCreditNotRefunded ==
    (/\ Served("Recalculate") \/ Served("BackfillAdd")
     /\ getMilestonesReached(habit.currentStreak)
            \subseteq getMilestonesReached(log.pre.currentStreak))
    => habit.currentCredits <= log.pre.currentCredits

\* C5: a Complete that crosses no milestone, followed at once by Undo, puts
\* streak and credits back to what they were before the Complete.
C5_CompleteUndoRestores ==
    [][(/\ Served("Complete") /\ log.ms = NoMilestone
        /\ log'.op = "Undo" /\ log'.res = "ok")
       => (/\ habit'.currentStreak  = log.pre.currentStreak
           /\ habit'.currentCredits = log.pre.currentCredits)]_vars

\* C6: undoing a genuine completion whose Complete crossed a milestone takes
\* exactly that milestone's bonus off the credits (floored at 0).
C6_UndoReversesBonus ==
    [][(/\ Served("Complete") /\ log.ms # NoMilestone
        /\ habit.currentCredits = log.pre.currentCredits
                                    + MILESTONE_CONFIGS[log.ms].bonusCredits
        /\ log'.op = "Undo" /\ log'.res = "ok")
       => habit'.currentCredits =
            Max(0, habit.currentCredits - MILESTONE_CONFIGS[log.ms].bonusCredits)]_vars

\* C7: within one calendar day no sequence of Complete, Undo, Recalculate and
\* Backfill-add credits the bonus of the same milestone twice.
C7_BonusOncePerDay == \A d \in MilestoneDays : awards[d] <= 1

\* C7 witness: the bonus of day 7 was credited today, the streak fell below 7
\* and a later request brought it back to 7
C7_Witness ==
    /\ awards[7] = 1
    /\ log.res = "ok" /\ log.op \in {"Complete", "BackfillAdd", "Recalculate"}
    /\ log.pre.currentStreak < 7
    /\ log.pre.currentCredits >= 1
    /\ habit.currentStreak = 7

\* two finished Complete requests that both saw today's slot empty
Raced(p, q) ==
    /\ p # q
    /\ \A x \in {p, q} :
         procs[x].op = "Complete" /\ procs[x].pc = "done" /\ procs[x].checked

\* C8: of two Complete requests that interleave on the same day exactly one
\* succeeds, the other fails with AlreadyCompletedToday and writes nothing, and
\* the streak is incremented once.
C8_RaceLoserAlreadyCompleted ==
    \A p, q \in Procs :
        (Raced(p, q) /\ procs[p].res = "ok") =>
            /\ procs[q].res = "AlreadyCompletedToday"
            /\ procs[q].created = {}
            /\ Cardinality(findUnique(completions, today)) = 1
            /\ habit = CompleteUpdate(habit, procs[p].h, day, procs[p].useCredit)

\* C9: the table never holds two records of one calendar day.
C9_OneRecordPerDay ==
    \A c1, c2 \in completions : c1.date = c2.date => c1 = c2

\* C9 witness: two requests found the same day free and one create was refused
C9_Witness ==
    \E p, q \in Procs :
        /\ p # q
        /\ procs[p].res = "ok" /\ procs[p].created # {}
        /\ procs[q].res = "UniqueConstraintFailed"

\* the request has written to the table and its Habit update has not happened
PartlyApplied(p) ==
    /\ procs[p].pc # "idle"
    /\ procs[p].res # "ok"
    /\ procs[p].created # {} \/ procs[p].deleted > 0

\* C10: no state shows the records of an operation created or deleted while
\* its Habit update is missing.
C10_Atomic == \A p \in Procs : ~PartlyApplied(p)

\* C11: Recalculate is idempotent: a second Recalculate right after the first,
\* with no write and no day change in between, leaves the Habit snapshot as the
\* first left it.
C11_RecalculateIdempotent ==
    [][(Served("Recalculate") /\ log'.op = "Recalculate" /\ log'.res = "ok")
       => Snapshot(habit') = Snapshot(habit)]_vars

\* C11 witness: a Recalculate that changed streak, longest streak and credits
\* has been served (the state the second call starts from)
C11_Witness ==
    /\ Served("Recalculate")
    /\ habit.currentStreak   # log.pre.currentStreak
    /\ habit.longestStreak   # log.pre.longestStreak
    /\ habit.currentCredits  # log.pre.currentCredits

\* C12: Backfill-remove never changes the credits, whatever it removes.
C12_RemoveKeepsCredits ==
    Served("BackfillRemove") => habit.currentCredits = log.pre.currentCredits

\* C12 witness: a removal took the streak from a crossed milestone back below
\* it and the milestone's credit is still there
C12_Witness ==
    /\ Served("BackfillRemove")
    /\ log.pre.currentStreak >= 7
    /\ habit.currentStreak < 7
    /\ habit.currentCredits >= 1

\* creditsForStreak of the credit policy: the bonuses of the thresholds <= streak
creditsForStreak(streak) ==
    CASE streak < 7   -> 0
      [] streak < 14  -> 1
      [] streak < 30  -> 2
      [] streak < 50  -> 4
      [] streak < 100 -> 6
      [] streak < 150 -> 11
      [] streak < 200 -> 16
      [] OTHER        -> 26

\* C13: Recalculate and Backfill-add set the credits to max(previous credits,
\* creditsForStreak(recomputed streak)) and the longest streak to max(previous
\* longest, recomputed streak); neither value is lowered.
C13_RecomputeTakesMax ==
    (Served("Recalculate") \/ Served("BackfillAdd")) =>
        /\ habit.currentCredits =
             Max(log.pre.currentCredits, creditsForStreak(habit.currentStreak))
        /\ habit.longestStreak = Max(log.pre.longestStreak, habit.currentStreak)
        /\ habit.currentCredits >= log.pre.currentCredits
        /\ habit.longestStreak  >= log.pre.longestStreak

\* C13 witness: a recompute whose streak is worth less than the balance and is
\* shorter than the longest streak kept both
C13_Witness ==
    /\ Served("Recalculate") \/ Served("BackfillAdd")
    /\ creditsForStreak(habit.currentStreak) < log.pre.currentCredits
    /\ habit.currentStreak < log.pre.longestStreak
    /\ habit.currentCredits = log.pre.currentCredits
    /\ habit.longestStreak = log.pre.longestStreak

\* the thresholds and bonuses of the milestone table
Thresholds == {7, 14, 30, 50, 100, 150, 200}
BonusAt(streak) ==
    CASE streak \in {7, 14}    -> 1
      [] streak \in {30, 50}   -> 2
      [] streak \in {100, 150} -> 5
      [] streak = 200          -> 10
      [] OTHER                 -> 0

\* the records of the server's current calendar day
RecordsToday == {c \in completions : c.date = day * SecPerDay}

\* the next request served is `op` by the habit's owner
OwnerServed(op) ==
    /\ log'.op = op
    /\ log'.res \notin {"Unauthorized", "HabitNotFound"}

\* the request changed neither the Habit row nor the table
NothingWritten == habit' = habit /\ completions' = completions

\* C14: a successful genuine Complete sets the streak to streak + 1 if
\* lastCompletedAt is yesterday, leaves it if lastCompletedAt is today, and sets
\* it to 1 otherwise; longest streak becomes max(longest, new streak),
\* lastCompletedAt becomes today and a non-skipped record of today exists.
C14_CompleteStreakRule ==
    Served("Complete") =>
        /\ habit.currentStreak =
             (IF log.pre.lastCompletedAt = (day - 1) * SecPerDay
                THEN log.pre.currentStreak + 1
              ELSE IF log.pre.lastCompletedAt = day * SecPerDay
                THEN log.pre.currentStreak
              ELSE 1)
        /\ habit.longestStreak = Max(log.pre.longestStreak, habit.currentStreak)
        /\ habit.lastCompletedAt = day * SecPerDay
        /\ \E c \in RecordsToday : ~c.skipped

\* C14 witness: a Complete after a gap restarted a streak that was longer than 1
C14_Witness ==
    /\ Served("Complete")
    /\ log.pre.lastCompletedAt \notin {Null, (day - 1) * SecPerDay}
    /\ log.pre.currentStreak > 1
    /\ habit.currentStreak = 1
    /\ habit.longestStreak = log.pre.longestStreak

\* C15: a genuine Complete adds a milestone's bonus and returns its descriptor
\* exactly when the new streak equals a threshold; otherwise the credits are
\* unchanged and no descriptor is returned.
C15_BonusExactlyAtThreshold ==
    Served("Complete") =>
        IF habit.currentStreak \in Thresholds
        THEN /\ log.ms = habit.currentStreak
             /\ habit.currentCredits = log.pre.currentCredits
                                         + BonusAt(habit.currentStreak)
        ELSE /\ log.ms = NoMilestone
             /\ habit.currentCredits = log.pre.currentCredits

\* C15 witness: streak 6, lastCompletedAt yesterday, credits 0: the Complete
\* gave streak 7, credits 1 and the day-7 descriptor
C15_Witness ==
    /\ Served("Complete")
    /\ log.pre.currentStreak = 6 /\ log.pre.currentCredits = 0
    /\ log.pre.lastCompletedAt = (day - 1) * SecPerDay
    /\ habit.currentStreak = 7 /\ habit.currentCredits = 1
    /\ log.ms = 7

\* C16: Complete and Complete-with-credit by the owner on a habit that has a
\* record (genuine or skipped) of today fail with AlreadyCompletedToday and
\* change neither the Habit row nor the table.
C16_AlreadyCompletedRejected ==
    [][((OwnerServed("Complete") \/ OwnerServed("CompleteWithCredit"))
        /\ RecordsToday # {})
       => (log'.res = "AlreadyCompletedToday" /\ NothingWritten)]_vars

\* C16 witness: a skip was refused on a day whose record is a skipped one,
\* with a credit in hand
C16_Witness ==
    /\ log.op = "CompleteWithCredit" /\ log.res = "AlreadyCompletedToday"
    /\ \E c \in RecordsToday : c.skipped
    /\ habit.currentCredits >= 1

\* C17: Complete-with-credit by the owner with fewer than 1 credit and no
\* record of today fails with InsufficientCredits, creates no record and leaves
\* streak, credits, longest streak and lastCompletedAt as they were.
C17_InsufficientCreditsRejected ==
    [][(OwnerServed("CompleteWithCredit")
        /\ habit.currentCredits < 1 /\ RecordsToday = {})
       => (log'.res = "InsufficientCredits" /\ NothingWritten)]_vars

\* C17 witness: a skip was refused for lack of credits on a running streak
C17_Witness ==
    /\ log.op = "CompleteWithCredit" /\ log.res = "InsufficientCredits"
    /\ habit.currentCredits = 0 /\ habit.currentStreak > 0
    /\ RecordsToday = {}

\* C18: a successful Complete-with-credit creates a skipped record of today,
\* takes exactly 1 credit and leaves streak and longest streak as they were
\* before the call, whatever lastCompletedAt was.
C18_SkipFrame ==
    Served("CompleteWithCredit") =>
        /\ \E c \in RecordsToday : c.skipped
        /\ habit.currentCredits = log.pre.currentCredits - 1
        /\ habit.currentStreak  = log.pre.currentStreak
        /\ habit.longestStreak  = log.pre.longestStreak

\* C19: Complete-with-credit performs no milestone check: whatever the streak,
\* it adds no bonus and returns no milestone descriptor.
C19_SkipNoMilestone ==
    Served("CompleteWithCredit") =>
        /\ log.ms = NoMilestone
        /\ habit.currentCredits = log.pre.currentCredits - 1

\* C20: Undo by the owner on a habit with no record of today fails with
\* NoCompletionToday and changes neither the Habit row nor the table.
C20_UndoNothingRejected ==
    [][(OwnerServed("Undo") /\ RecordsToday = {})
       => (log'.res = "NoCompletionToday" /\ NothingWritten)]_vars

\* C20 witness: an Undo was refused on a day without a record while yesterday
\* has one and the streak is running
C20_Witness ==
    /\ log.op = "Undo" /\ log.res = "NoCompletionToday"
    /\ RecordsToday = {}
    /\ \E c \in completions : c.date = (day - 1) * SecPerDay
    /\ habit.currentStreak > 0

\* C21: undoing a skipped record gives exactly 1 credit back and does not
\* decrement the streak: Complete-with-credit followed by Undo puts streak and
\* credits back to what they were before the skip.
C21_UndoSkipRestores ==
    [][(Served("CompleteWithCredit") /\ log'.op = "Undo" /\ log'.res = "ok")
       => (/\ habit'.currentStreak  = log.pre.currentStreak
           /\ habit'.currentCredits = log.pre.currentCredits)]_vars

\* the table has no record of calendar day n
Free(n) == \A c \in completions : c.date # n * SecPerDay

\* C22: Backfill-add creates one genuine record for each supplied date that is
\* not in the future and not recorded, creates nothing else and keeps every
\* existing record as it is; the same list applied a second time changes
\* neither the table nor the Habit snapshot.
C22_BackfillAddCreates ==
    [][(log'.op = "BackfillAdd" /\ log'.res = "ok")
       => (/\ completions \subseteq completions'
           /\ \A n \in log'.arg :
                (n <= day /\ Free(n)) =>
                    /\ Cardinality({c \in completions' : c.date = n * SecPerDay}) = 1
                    /\ \A c \in completions' : c.date = n * SecPerDay => ~c.skipped
           /\ \A c \in completions' \ completions :
                \E n \in log'.arg : c.date = n * SecPerDay /\ n <= day /\ Free(n)
           /\ (Served("BackfillAdd") /\ log'.arg = log.arg)
                => (completions' = completions /\ Snapshot(habit') = Snapshot(habit)))]_vars

\* C22 witness: a list naming today's skipped record and at least one more day
\* was applied, and the streak grew from 1 to 3 or more
C22_Witness ==
    /\ Served("BackfillAdd")
    /\ day \in log.arg /\ Cardinality(log.arg) >= 2
    /\ \E c \in RecordsToday : c.skipped
    /\ log.pre.currentStreak = 1
    /\ habit.currentStreak >= 3

\* C23: after Backfill-add the streak is the calculator's result for today over
\* the whole table, not the previous streak plus the number of dates added.
C23_BackfillAddRecomputes ==
    Served("BackfillAdd") => habit.currentStreak = ConsecutiveEnding(completions, today)

\* C23 witness: [today-2, today-1, today] added to a habit without records
\* gives streak 3
C23_Witness ==
    /\ Served("BackfillAdd")
    /\ log.arg = {day - 2, day - 1, day}
    /\ log.pre.currentStreak = 0 /\ log.pre.lastCompletedAt = Null
    /\ Cardinality(completions) = 3
    /\ habit.currentStreak = 3

\* the lapse condition: no record of today, none of yesterday, and
\* lastCompletedAt null or earlier than yesterday
Lapsed ==
    /\ RecordsToday = {}
    /\ Free(day - 1)
    /\ habit.lastCompletedAt = Null \/ habit.lastCompletedAt < (day - 1) * SecPerDay

\* C24: the sweep of the owner's habits sets the streak of a non-archived habit
\* with streak > 0 to 0 exactly when the habit has lapsed, and leaves the habit
\* unchanged in every other case.
C24_SweepResetsExactlyLapsed ==
    [][(/\ log'.op = "Sweep" /\ log'.caller = habit.userId
        /\ ~habit.isArchived /\ habit.currentStreak > 0)
       => habit' = IF Lapsed THEN [habit EXCEPT !.currentStreak = 0] ELSE habit]_vars

\* C24 witness: streak 7, credits 1, lastCompletedAt before yesterday, no record
\* of today or yesterday: the sweep gave streak 0 and kept credits and longest
C24_Witness ==
    /\ Served("Sweep")
    /\ log.pre.currentStreak = 7 /\ log.pre.currentCredits = 1
    /\ log.pre.lastCompletedAt < (day - 1) * SecPerDay
    /\ habit.currentStreak = 0 /\ habit.currentCredits = 1
    /\ habit.longestStreak = log.pre.longestStreak

\* C25: the sweep never changes longest streak, credits, lastCompletedAt or a
\* record, and changes nothing on an archived habit, on a habit with streak 0
\* and on a habit of another user.
C25_SweepFrame ==
    [][(log'.op = "Sweep")
       => (/\ habit' = [habit EXCEPT !.currentStreak = habit'.currentStreak]
           /\ completions' = completions
           /\ (habit.isArchived \/ habit.currentStreak = 0
                 \/ log'.caller # habit.userId) => habit' = habit)]_vars

\* C25 witness: the owner's sweep passed over an archived habit that has lapsed
\* with a running streak
C25_Witness ==
    /\ Served("Sweep") /\ log.caller = habit.userId
    /\ habit.isArchived /\ habit.currentStreak > 0
    /\ Lapsed

\* the pages and routes that show streaks
ReadOps == {"DashboardPage", "GardenPage", "GET"}

\* C26: every read that returns a streak runs the sweep first: no read returns
\* a streak > 0 for a non-archived habit without a record of today or yesterday
\* whose lastCompletedAt is before yesterday.
C26_NoStaleStreakShown ==
    (log.op \in ReadOps /\ log.res = "ok" /\ ~habit.isArchived)
    => \A streak \in log.arg :
         ~(/\ streak > 0
           /\ RecordsToday = {} /\ Free(day - 1)
           /\ habit.lastCompletedAt # Null
           /\ habit.lastCompletedAt < (day - 1) * SecPerDay)

\* the Habit row and the table before the first request of the day
Start == AfterDailyCompletes(day - elapsed)

\* a sweep of the owner's habits served alone
SweepOf(s) ==
    [h     |-> IF SweepSelects(s.h, Owner) /\ SweepResets(s.h, s.store, day)
               THEN [s.h EXCEPT !.currentStreak = 0] ELSE s.h,
     store |-> s.store]

\* a Complete (Complete-with-credit) or an Undo served alone
RequestOf(r, s) ==
    LET found == findUnique(s.store, day * SecPerDay)
    IN  IF r.op = "Complete"
        THEN IF found # {} \/ NotEnoughCredits(s.h, r.useCredit) THEN s
             ELSE [h     |-> CompleteUpdate(s.h, s.h, day, r.useCredit),
                   store |-> s.store \cup
                               {NewCompletion(s.store, day * SecPerDay, r.useCredit, {})}]
        ELSE IF found = {} THEN s
             ELSE [h     |-> UndoUpdate(s.h, s.h, CHOOSE c \in found : TRUE),
                   store |-> s.store \ found]

\* C27: a sweep and a Complete (or Undo) of the same habit do not race: when
\* both have finished, Habit row and table are what one of the two serial
\* orders gives.
C27_SweepSerializable ==
    \A p, q \in Procs :
        (/\ procs[p].op = "Sweep" /\ procs[p].pc = "done"
         /\ procs[q].op \in {"Complete", "Undo"} /\ procs[q].pc = "done")
        => [h |-> habit, store |-> completions]
             \in {RequestOf(procs[q], SweepOf(Start)), SweepOf(RequestOf(procs[q], Start))}

\* C28: a streak preserved by a skip is not treated as lapsed: with a skipped
\* record of yesterday a sweep leaves the streak and a genuine Complete
\* continues it (streak + 1).
C28_SkipPreservesStreak ==
    [][(\E c \in completions : c.date = (day - 1) * SecPerDay /\ c.skipped)
       => (/\ (log'.op = "Sweep") => habit'.currentStreak = habit.currentStreak
           /\ (log'.op = "Complete" /\ log'.res = "ok")
                => habit'.currentStreak = habit.currentStreak + 1)]_vars

\* the requests that write
Requests == {"Complete", "CompleteWithCredit", "Undo", "BackfillAdd",
             "BackfillRemove", "Recalculate"}

\* C29: Complete, Undo, Backfill-add, Backfill-remove and Recalculate by a
\* caller without a session or by one who does not own the habit fail before
\* any write.
C29_UnauthorizedWritesNothing ==
    [][(log'.op \in Requests /\ log'.caller # habit.userId)
       => (log'.res \in {"Unauthorized", "HabitNotFound"} /\ NothingWritten)]_vars

\* C29 witness: another user's Backfill-remove was refused on a habit with a
\* record of today
C29_Witness ==
    /\ log.op = "BackfillRemove" /\ log.caller \in Users \ {habit.userId}
    /\ log.res = "HabitNotFound"
    /\ RecordsToday # {}

\* C30 as stated: after a successful skip lastCompletedAt has the value it had
\* before the call.
C30_SkipKeepsLastCompleted ==
    Served("CompleteWithCredit") => habit.lastCompletedAt = log.pre.lastCompletedAt

\* C30 amended: a successful Complete-with-credit sets lastCompletedAt to
\* today, as a genuine Complete does.
C30_SkipSetsLastCompletedToday ==
    Served("CompleteWithCredit") => habit.lastCompletedAt = day * SecPerDay

\* C30 witness: a skip on the day after the last completion
C30_Witness ==
    /\ Served("CompleteWithCredit")
    /\ log.pre.lastCompletedAt = (day - 1) * SecPerDay
    /\ habit.lastCompletedAt = day * SecPerDay

\* C31: a successful Undo deletes exactly today's record and no other, sets
\* lastCompletedAt to null whatever earlier records exist, and leaves the
\* longest streak unchanged.
C31_UndoFrame ==
    [][(log'.op = "Undo" /\ log'.res = "ok")
       => (/\ RecordsToday # {}
           /\ completions' = completions \ RecordsToday
           /\ habit'.lastCompletedAt = Null
           /\ habit'.longestStreak = habit.longestStreak)]_vars

\* C31 witness: an Undo on a habit that keeps records of yesterday and the
\* day before left lastCompletedAt null
C31_Witness ==
    /\ Served("Undo")
    /\ RecordsToday = {}
    /\ ~Free(day - 1) /\ ~Free(day - 2)
    /\ log.pre.lastCompletedAt = day * SecPerDay
    /\ habit.lastCompletedAt = Null

\* the recomputing requests
Recomputes == {"BackfillAdd", "BackfillRemove", "Recalculate"}

\* the least number of a set of naturals
Least(S) == CHOOSE g \in S : \A h \in S : g <= h

\* the number of consecutive recorded days ending today: the distance from
\* today back to the first day without a record
RunEndingToday == Least({i \in 0..(day + 1) : Free(day - i)})

\* C32: the streak computed by Backfill-add, Backfill-remove and Recalculate is
\* the number of consecutive recorded days ending today, skipped and genuine
\* alike, 0 when today has no record, and never more than 365 (a longer run is
\* reported as 365).
C32_StreakWalk ==
    (log.op \in Recomputes /\ log.res = "ok") =>
        /\ \E run \in {RunEndingToday} :
             habit.currentStreak = IF run > 365 THEN 365 ELSE run
        /\ RecordsToday = {} => habit.currentStreak = 0
        /\ habit.currentStreak <= 365

\* C32 witness: a run of more than 365 days ending today, a skipped record
\* among them, was reported as 365 by a Backfill-remove
C32_Witness ==
    /\ Served("BackfillRemove")
    /\ \E c \in completions : c.skipped
    /\ \A i \in 0..365 : ~Free(day - i)
    /\ habit.currentStreak = 365

\* the sum of the bonuses of the thresholds <= streak in the milestone table
BonusIf(threshold, streak) == IF threshold <= streak THEN BonusAt(threshold) ELSE 0

SumOfBonuses(streak) ==
    BonusIf(7, streak) + BonusIf(14, streak) + BonusIf(30, streak)
    + BonusIf(50, streak) + BonusIf(100, streak) + BonusIf(150, streak)
    + BonusIf(200, streak)

\* the smallest threshold above streak, NoMilestone when there is none
NextThreshold(streak) ==
    IF \A t \in Thresholds : t <= streak THEN NoMilestone
    ELSE Least({t \in Thresholds : t > streak})

\* C33: for every streak s the credits a recompute derives from s are the sum
\* of the bonuses of the thresholds <= s in {7:1, 14:1, 30:2, 50:2, 100:5,
\* 150:5, 200:10} (entering the balance through max(previous, .)), and the next
\* milestone shown for s is the one with the smallest threshold > s, none
\* exactly when s >= 200.
C33_MilestoneTables ==
    /\ (Served("Recalculate") \/ Served("BackfillAdd")) =>
          habit.currentCredits =
             Max(log.pre.currentCredits, SumOfBonuses(habit.currentStreak))
    /\ (Served("GardenView") /\ log.caller = habit.userId) =>
          /\ log.ms = NextThreshold(habit.currentStreak)
          /\ (log.ms = NoMilestone) <=> (habit.currentStreak >= 200)

\* C33 witness: a streak of 200, worth 26 credits after a recompute, is shown
\* without a next milestone
C33_Witness ==
    /\ Served("GardenView")
    /\ log.caller = habit.userId
    /\ habit.currentStreak = 200
    /\ habit.currentCredits = 26
    /\ log.ms = NoMilestone

\* C34: from a habit with lastCompletedAt = yesterday and currentStreak = s,
\* Complete, Undo, Complete leaves currentStreak = s + 1: the Complete that
\* follows the Undo of the day's first Complete gives s + 1 again.
C34_ToggleKeepsStreak ==
    [][(/\ log.op = "Undo" /\ log.res = "ok"
        /\ elapsed = 0
        /\ Start.h.lastCompletedAt = yesterday
        /\ log.pre.lastCompletedAt = today
        /\ log.pre.currentStreak = Start.h.currentStreak + 1
        /\ log'.op = "Complete" /\ log'.res = "ok")
       => habit'.currentStreak = Start.h.currentStreak + 1]_vars

\* C35: on a habit with records on each of k >= 1 days ending yesterday, none
\* today and currentStreak = k, a Recalculate, Backfill-add or Backfill-remove
\* that names none of those days nor today, followed by a genuine Complete,
\* yields currentStreak = k + 1.
C35_RecomputeKeepsLiveStreak ==
    [][(/\ log.op \in Recomputes /\ log.res = "ok"
        /\ RecordsToday = {}
        /\ log.pre.currentStreak >= 1
        /\ log.pre.currentStreak = ConsecutiveEnding(completions, yesterday)
        /\ log.pre.lastCompletedAt = yesterday
        /\ log.arg \cap ((day - log.pre.currentStreak)..day) = {}
        /\ log'.op = "Complete" /\ log'.res = "ok")
       => habit'.currentStreak = log.pre.currentStreak + 1]_vars

\* the date of the most recent record, Null when there is none
MostRecent(store) ==
    IF store = {} THEN Null
    ELSE CHOOSE d \in {c.date : c \in store} : \A c \in store : c.date <= d

\* C36: in every state a non-null lastCompletedAt names a day that has a record
\* and is not after today; after a successful Backfill-add, Backfill-remove or
\* Recalculate it is the day of the most recent record, null when there is
\* none.
C36_LastCompletedNamesRecord ==
    /\ habit.lastCompletedAt # Null =>
          /\ habit.lastCompletedAt <= today
          /\ \E c \in completions : c.date = habit.lastCompletedAt
    /\ (log.op \in Recomputes /\ log.res = "ok") =>
          habit.lastCompletedAt = MostRecent(completions)

\* C36 witness: the removal of today's record moved lastCompletedAt from today
\* back to yesterday
C36_Witness ==
    /\ Served("BackfillRemove")
    /\ log.pre.lastCompletedAt = today
    /\ RecordsToday = {}
    /\ habit.lastCompletedAt = yesterday

\* C37: when a Complete-with-credit and a Recalculate or Backfill-add have both
\* been served, whatever their interleaving, the balance shows the credit
\* spent: it is no more than the balance the skip read less one, unless the
\* final streak itself is worth more.
C37_SkipSpendKept ==
    \A p, q \in Procs :
        (/\ p # q
         /\ procs[p].pc = "done" /\ procs[p].res = "ok"
         /\ procs[p].op = "Complete" /\ procs[p].useCredit
         /\ procs[q].pc = "done" /\ procs[q].res = "ok"
         /\ procs[q].op \in {"Recalculate", "BackfillAdd"})
        => habit.currentCredits
             <= Max(procs[p].h.currentCredits - 1,
                    creditsForStreak(habit.currentStreak))

====
